---------------------------- MODULE Spec2Model ----------------------------
(***************************************************************************)
(* Verification model of the Ford SYNC log analysis scripts (ford-sync/):  *)
(*   match_wifi_to_GPS_location.py  WiFi sighting / GPS fix correlation    *)
(*   parse_gps_tracks.py            MM coordinate decoding, track parsing  *)
(*   parse_unifiedsearch_log.py     greedy clustering of visited points    *)
(*                                                                         *)
(* Units.  Timestamps are integers in milliseconds (the logs carry three   *)
(* decimals).  Raw MM values are integers.  Decimal degrees are integers   *)
(* in micro-degrees (1e-6 degree), so raw/100000 is raw*10 and raw/10000   *)
(* is raw*100.  Distances are integers in millimetres.                     *)
(*                                                                         *)
(* Each script is a specification of its own (SpecWifi, SpecDecode,        *)
(* SpecTracks, SpecTrips, SpecCluster) over the variables that script      *)
(* owns; the variables of the other scripts stay at their idle value.      *)
(* SpecLists starts either group_into_trips or cluster_locations, the two  *)
(* functions that are handed a list by their caller.                       *)
(***************************************************************************)
EXTENDS Integers, Sequences, FiniteSets, TLC

VARIABLES
    \* match_wifi_to_GPS_location.py
    log_content,      \* the lines of the log file being analysed
    target,           \* [lat, lon] the -g argument, micro-degrees
    max_distance,     \* the -d argument, metres
    bssid_entries,    \* result of extract_bssid_entries
    entry_idx,        \* position of the for-loop of analyze_log_file
    matches,          \* the list analyze_log_file builds
    gps_found,        \* analyze_log_file's local gps_data: the last find_gps_in_window result
    wpc,              \* "idle" | "start" | "loop" | "done"
    \* parse_gps_tracks.py, parse_gps_line on one line
    dline,            \* the line handed to parse_gps_line
    dresult,          \* what the call gave: a fix, None, or a raised error
    dpc,              \* "idle" | "call" | "done"
    \* parse_gps_tracks.py, main
    log_files,        \* the files, each a sequence of lines
    file_idx,         \* position of the for-loop over log_files
    line_idx,         \* position of the for-loop over the lines of a file
    all_gps_points,
    total_lines_with_gps,
    lines_with_gps,
    points_found,
    total_filtered,
    tpc,              \* "idle" | "file" | "parsed"
    \* parse_gps_tracks.py, main from the call of group_into_trips on
    gps_points,       \* the list handed to group_into_trips (sorted in place)
    trips,            \* what group_into_trips returned
    valid_trips,
    trip_idx,         \* position of the for-loop over valid_trips
    trip_stats,       \* per trip written, what create_kml_file computed
    gpc,              \* "idle" | "group" | "filter" | "kml" | "finished" | "raised"
    \* parse_unifiedsearch_log.py
    us_lines,         \* the lines of the unified search log
    us_idx,           \* position of the for-loop of parse_log_file
    current_timestamp,
    gps_data,         \* the list parse_log_file builds, then cluster_locations' input
    clusters,         \* the list cluster_locations builds
    used_indices,
    seed_idx,         \* position of the outer for-loop of cluster_locations
    cpc               \* "idle" | "parse" | "exit" | "loop" | "done"

wifiVars    == <<log_content, target, max_distance, bssid_entries, entry_idx, matches,
                 gps_found, wpc>>
decodeVars  == <<dline, dresult, dpc>>
trackVars   == <<log_files, file_idx, line_idx, all_gps_points, total_lines_with_gps,
                 lines_with_gps, points_found, total_filtered, tpc>>
clusterVars == <<us_lines, us_idx, current_timestamp, gps_data, clusters, used_indices,
                 seed_idx, cpc>>
tripVars    == <<gps_points, trips, valid_trips, trip_idx, trip_stats, gpc>>
vars        == <<wifiVars, decodeVars, trackVars, clusterVars, tripVars>>

--------------------------------------------------------------------------
(* Python values *)

\* Python's None
NoneVal == [none |-> TRUE]

Abs(x) == IF x < 0 THEN -x ELSE x

Max2(a, b) == IF a >= b THEN a ELSE b

Min2(a, b) == IF a <= b THEN a ELSE b

RECURSIVE SqrtIter(_, _, _)
SqrtIter(n, lo, hi) ==
    IF lo >= hi THEN lo
    ELSE LET mid == (lo + hi + 1) \div 2
         IN  IF mid * mid <= n THEN SqrtIter(n, mid, hi) ELSE SqrtIter(n, lo, mid - 1)

\* floor of the square root, for 0 <= n < 2^31
ISqrt(n) == SqrtIter(n, 0, 46340)

MinOf(S) == CHOOSE m \in S : \A x \in S : m <= x

\* the elements of a finite set of integers, ascending
RECURSIVE SortedSeq(_)
SortedSeq(S) == IF S = {} THEN <<>> ELSE <<MinOf(S)>> \o SortedSeq(S \ {MinOf(S)})

--------------------------------------------------------------------------
(* Great-circle distance *)

\* cos of a latitude given in micro-degrees, scaled by 10^4: the Taylor
\* series 1 - x^2/2 + x^4/24 - x^6/720 on x in milliradians.
CosE4(lat_udeg) ==
    LET x   == ((Abs(lat_udeg) \div 1000) * 17453) \div 1000000
        x2  == (x * x) \div 1000
        t2  == (x2 * x2) \div 24
        t3  == (((x2 * x2) \div 720) * x2) \div 1000
        c6  == 1000000 - (x * x) \div 2 + t2 - t3
    IN  c6 \div 100

\* How far apart two coordinates may be, in micro-degrees, for the integer
\* evaluation below to stay inside 32 bits (about 1.4 km on each axis).
NearSpan == 13000

\* The value reported for two points farther apart than NearSpan on an axis:
\* larger than any radius the scripts compare a distance with.
FarMM == 2000000000

\* haversine_distance, in millimetres.  With a = sin^2(dlat/2) +
\* cos(lat1) cos(lat2) sin^2(dlon/2) and c = 2 asin(sqrt(a)) the code
\* returns 6371000 c.  Within NearSpan sin(x/2) = x/2 and asin(h) = h to
\* better than 1e-7, so c = sqrt(dlat^2 + cos(lat1) cos(lat2) dlon^2) in
\* radians, and one micro-degree of arc on the 6371000 m sphere is
\* 111.195 mm.
HaversineMM(lat1, lon1, lat2, lon2) ==
    LET dlat == lat2 - lat1
        dlon == lon2 - lon1
    IN  IF Abs(dlat) > NearSpan \/ Abs(dlon) > NearSpan THEN FarMM
        ELSE LET ew1 == (Abs(dlon) * CosE4(lat1)) \div 10000
                 ew2 == (Abs(dlon) * CosE4(lat2)) \div 10000
                 a   == dlat * dlat + ew1 * ew2
             IN  (ISqrt(a) * 111195) \div 1000


--------------------------------------------------------------------------
(* match_wifi_to_GPS_location.py *)

\* A line of a pas_debug log, as the regular expressions of the script see
\* it.  Altitude and heading are copied through unread and are left out.
OtherLine == [kind |-> "other"]

BssidLine(ts, b) == [kind |-> "bssid", ts |-> ts, bssid |-> b]

SsidLine(s, sig) == [kind |-> "ssid", ssid |-> s, signal |-> sig]

GpsLine(ts, lon, lat) == [kind |-> "gps", ts |-> ts, mm_lon |-> lon, mm_lat |-> lat]

\* log_content[idx] of the code, idx counted from 0
LineAt(log, idx) == log[idx + 1]

\* raw / 100000 degrees, whatever the magnitude: raw * 10 micro-degrees
convert_mm_coordinates(mm_lon, mm_lat) ==
    [latitude |-> mm_lat * 10, longitude |-> mm_lon * 10]

\* The indices lo..hi-1 of the lines of `log` of the given kind, ascending: the
\* lines a for-loop over that range stops at when it tests a line's pattern.
MatchingIndices(log, lo, hi, kind) ==
    SortedSeq({idx \in lo..(hi - 1) : LineAt(log, idx).kind = kind})

\* for idx, line in enumerate(log_content): if bssid_pattern.match(line): append
extract_bssid_entries(log) ==
    LET at == MatchingIndices(log, 0, Len(log), "bssid")
    IN  [k \in 1..Len(at) |->
            [timestamp |-> LineAt(log, at[k]).ts, bssid |-> LineAt(log, at[k]).bssid,
             line_num |-> at[k]]]

\* (ssid, signal) of the line after the BSSID line, or None
extract_ssid_and_signal(log, line_num) ==
    IF line_num + 1 < Len(log) /\ LineAt(log, line_num + 1).kind = "ssid"
    THEN [ssid |-> LineAt(log, line_num + 1).ssid, signal |-> LineAt(log, line_num + 1).signal]
    ELSE NoneVal

\* the +-50 of search_range
WindowLines == 50

\* range(max(0, start_line - 50), min(len(log_content), start_line + 50)):
\* first index, and one past the last index
SearchLo(log, start_line) == Max2(0, start_line - WindowLines)

\* a scan that runs to the end of the file
SearchHi_whole_file(log, start_line) == Len(log)

SearchHi(log, start_line) == Min2(Len(log), start_line + WindowLines)

\* IsCloser without the window test: every line nearer than the initial
\* min_time_diff (window_seconds + 1) is taken
IsCloser_no_window(time_diff, window_ms, min_time_diff) ==
    time_diff < min_time_diff

\* IsCloser with <= for <: a candidate as near as the best so far replaces it
IsCloser_or_equal(time_diff, window_ms, min_time_diff) ==
    time_diff <= window_ms /\ time_diff <= min_time_diff

\* the if of the scan loop: the candidate replaces closest_gps
IsCloser(time_diff, window_ms, min_time_diff) ==
    time_diff <= window_ms /\ time_diff < min_time_diff

\* The for-loop of find_gps_in_window from the k-th GPS line of the search
\* range on (`at` lists the indices of the GPS lines in the range, ascending;
\* the loop does nothing at the other lines).
RECURSIVE scan_gps(_, _, _, _, _, _, _)
scan_gps(log, target_time, at, k, window_ms, closest_gps, min_time_diff) ==
    IF k > Len(at) THEN closest_gps
    ELSE LET line == LineAt(log, at[k])
             time_diff == Abs(line.ts - target_time)
         IN  IF IsCloser(time_diff, window_ms, min_time_diff)
             THEN scan_gps(log, target_time, at, k + 1, window_ms,
                           [timestamp |-> line.ts, mm_lon |-> line.mm_lon,
                            mm_lat |-> line.mm_lat, time_diff |-> time_diff],
                           time_diff)
             ELSE scan_gps(log, target_time, at, k + 1, window_ms, closest_gps, min_time_diff)

find_gps_in_window(log, target_time, start_line, window_seconds) ==
    scan_gps(log, target_time,
             MatchingIndices(log, SearchLo(log, start_line), SearchHi(log, start_line), "gps"),
             1, window_seconds * 1000, NoneVal, (window_seconds + 1) * 1000)

\* window_seconds=2 of the call in analyze_log_file
WindowSeconds == 2

\* The record analyze_log_file builds from a sighting and a GPS fix.  line_num
\* is bookkeeping of the model: it names the sighting the record came from.
match_record(entry, ssid_sig, gps, p, distance) ==
    [timestamp |-> entry.timestamp, gps_timestamp |-> gps.timestamp,
     bssid |-> entry.bssid, ssid |-> ssid_sig.ssid, signal_strength |-> ssid_sig.signal,
     latitude |-> p.latitude, longitude |-> p.longitude,
     mm_lat |-> gps.mm_lat, mm_lon |-> gps.mm_lon,
     distance_mm |-> distance, gps_time_diff |-> gps.time_diff,
     line_num |-> entry.line_num]

\* entry_records appending a record for every GPS line of the search range
\* that is within the time window, instead of the closest one only
RECURSIVE records_of_all(_, _, _, _, _, _, _)
records_of_all(log, entry, ssid_sig, at, k, tgt, maxd) ==
    IF k > Len(at) THEN <<>>
    ELSE LET line == LineAt(log, at[k])
             gps == [timestamp |-> line.ts, mm_lon |-> line.mm_lon, mm_lat |-> line.mm_lat,
                     time_diff |-> Abs(line.ts - entry.timestamp)]
             p == convert_mm_coordinates(gps.mm_lon, gps.mm_lat)
             distance == HaversineMM(tgt.lat, tgt.lon, p.latitude, p.longitude)
         IN  ( IF gps.time_diff <= 2000 /\ distance <= maxd * 1000
               THEN <<match_record(entry, ssid_sig, gps, p, distance)>> ELSE <<>> )
             \o records_of_all(log, entry, ssid_sig, at, k + 1, tgt, maxd)

entry_records_all_in_range(log, entry, ssid_sig, gps, tgt, maxd) ==
    records_of_all(log, entry, ssid_sig,
                   MatchingIndices(log, SearchLo(log, entry.line_num),
                                   SearchHi(log, entry.line_num), "gps"),
                   1, tgt, maxd)

\* entry_records without the test of the distance
entry_records_any_distance(log, entry, ssid_sig, gps, tgt, maxd) ==
    IF gps = NoneVal THEN <<>>
    ELSE LET p == convert_mm_coordinates(gps.mm_lon, gps.mm_lat)
         IN  <<match_record(entry, ssid_sig, gps, p,
                            HaversineMM(tgt.lat, tgt.lon, p.latitude, p.longitude))>>

\* The records one pass of the for-loop of analyze_log_file appends for a
\* sighting with an SSID, given what find_gps_in_window returned: none or one.
entry_records(log, entry, ssid_sig, gps, tgt, maxd) ==
    IF gps = NoneVal THEN <<>>
    ELSE LET p == convert_mm_coordinates(gps.mm_lon, gps.mm_lat)
             distance == HaversineMM(tgt.lat, tgt.lon, p.latitude, p.longitude)
         IN  IF distance <= maxd * 1000
             THEN <<match_record(entry, ssid_sig, gps, p, distance)>>
             ELSE <<>>

(* the logs the model analyses *)

\* A log is built from at most MaxItems items: a GPS line preceded by `pad`
\* unrelated lines, or a BSSID line with or without its SSID line.  The
\* variable log_content holds the log with each run of unrelated lines
\* folded into the `pad` of the line that follows it; Lines unfolds it into
\* the list of lines the code indexes.
MaxItems == 3

Pads == {0, 48}

\* timestamps of the GPS lines, in ms; the sightings are at time 0
GpsTimes == {-1500, -500, 500, 2000, 2100}

\* Adelaide-like target, and raw MM pairs about 22 m and 111 m north of it
TargetPoint == [lat |-> -34900000, lon |-> 135725140]

GpsPositions == {[mm_lon |-> 13572514, mm_lat |-> -3489980],
                 [mm_lon |-> 13572514, mm_lat |-> -3489900]}

\* the default of -d
DefaultMaxDistance == 50

WifiItems ==
    [kind : {"gps"}, pad : Pads, ts : GpsTimes, pos : GpsPositions]
    \cup [kind : {"sighting"}, with_ssid : BOOLEAN]

ItemSegments(it) ==
    IF it.kind = "gps"
    THEN <<[pad |-> it.pad, line |-> GpsLine(it.ts, it.pos.mm_lon, it.pos.mm_lat)]>>
    ELSE IF it.with_ssid
    THEN <<[pad |-> 0, line |-> BssidLine(0, "aa:bb:cc:dd:ee:ff")],
           [pad |-> 0, line |-> SsidLine("net", 60)]>>
    ELSE <<[pad |-> 0, line |-> BssidLine(0, "aa:bb:cc:dd:ee:ff")]>>

RECURSIVE BuildLog(_)
BuildLog(items) ==
    IF items = <<>> THEN <<>> ELSE ItemSegments(Head(items)) \o BuildLog(Tail(items))

\* the logs of at most max_items items
WifiLogs(max_items) ==
    {BuildLog(s) : s \in UNION {[1..n -> WifiItems] : n \in 1..max_items}}

PadLines(n) == [i \in 1..n |-> OtherLine]

\* f.readlines(): the list of lines of the file
RECURSIVE Lines(_)
Lines(segs) ==
    IF segs = <<>> THEN <<>>
    ELSE PadLines(Head(segs).pad) \o <<Head(segs).line>> \o Lines(Tail(segs))

IdleWifi ==
    /\ log_content = <<>> /\ target = TargetPoint /\ max_distance = 0
    /\ bssid_entries = <<>> /\ entry_idx = 0 /\ matches = <<>>
    /\ gps_found = NoneVal /\ wpc = "idle"

InitWifi ==
    /\ log_content \in WifiLogs(MaxItems)
    /\ target = TargetPoint
    /\ max_distance = DefaultMaxDistance
    /\ bssid_entries = <<>> /\ entry_idx = 0 /\ matches = <<>>
    /\ gps_found = NoneVal
    /\ wpc = "start"

\* open() or readlines() failed: analyze_log_file returns []
WifiReadError ==
    /\ wpc = "start"
    /\ wpc' = "done"
    /\ UNCHANGED <<log_content, target, max_distance, bssid_entries, entry_idx, matches, gps_found>>
    /\ UNCHANGED <<decodeVars, trackVars, clusterVars, tripVars>>

WifiExtract ==
    /\ wpc = "start"
    /\ bssid_entries' = extract_bssid_entries(Lines(log_content))
    /\ wpc' = "loop"
    /\ UNCHANGED <<log_content, target, max_distance, entry_idx, matches, gps_found>>
    /\ UNCHANGED <<decodeVars, trackVars, clusterVars, tripVars>>

\* one pass of `for entry in bssid_entries`
WifiAnalyzeEntry ==
    /\ wpc = "loop"
    /\ entry_idx < Len(bssid_entries)
    /\ LET log == Lines(log_content)
           entry == bssid_entries[entry_idx + 1]
           ssid_sig == extract_ssid_and_signal(log, entry.line_num)
           gps == find_gps_in_window(log, entry.timestamp, entry.line_num, WindowSeconds)
       IN  IF ssid_sig = NoneVal
           THEN UNCHANGED <<matches, gps_found>>
           ELSE /\ gps_found' = gps
                /\ matches' = matches \o entry_records(log, entry, ssid_sig, gps, target, max_distance)
    /\ entry_idx' = entry_idx + 1
    /\ UNCHANGED <<log_content, target, max_distance, bssid_entries, wpc>>
    /\ UNCHANGED <<decodeVars, trackVars, clusterVars, tripVars>>

WifiReturn ==
    /\ wpc = "loop"
    /\ entry_idx = Len(bssid_entries)
    /\ wpc' = "done"
    /\ UNCHANGED <<log_content, target, max_distance, bssid_entries, entry_idx, matches, gps_found>>
    /\ UNCHANGED <<decodeVars, trackVars, clusterVars, tripVars>>

--------------------------------------------------------------------------
(* parse_gps_tracks.py: decoding one line *)

\* What a call gave when it raised instead of returning
Raised == [raised |-> "ValueError"]

\* A line as parse_gps_line sees it.
\*   send  'SendGPSCanData' occurs in the line (read by main only)
\*   form  "no_ts": the timestamp pattern does not match at the start;
\*         "no_mm": it does, the MM Output pattern does not; "mm": both match
\*   bad   the matched text that is not a number or a date ("1.2.3", "-",
\*         month 13): "ts", "lon", "lat", "alt", "hd", or "none"
\*   ts    the timestamp, ms;  lon, lat  the raw MM values
TrackLine(send, form, bad, ts, lon, lat) ==
    [send |-> send, form |-> form, bad |-> bad, ts |-> ts, lon |-> lon, lat |-> lat]

\* decode_mm_coordinate with >= for >
decode_mm_coordinate_ge(mm_value) ==
    IF Abs(mm_value) >= 1000000 THEN mm_value * 10 ELSE mm_value * 100

\* mm_value / 100000 if abs(mm_value) > 1000000 else mm_value / 10000, in
\* micro-degrees
decode_mm_coordinate(mm_value) ==
    IF Abs(mm_value) > 1000000 THEN mm_value * 10 ELSE mm_value * 100

\* Altitude, heading and the satellite count are copied through and are left
\* out of the fix; what is kept of them is whether float() accepts their text.
parse_gps_line(line) ==
    IF line.form = "no_ts" THEN NoneVal
    ELSE IF line.bad = "ts" THEN Raised                    \* datetime.strptime
    ELSE IF line.form = "no_mm" THEN NoneVal
    ELSE IF line.bad = "lon" \/ line.bad = "lat" THEN Raised   \* float(group 1), float(group 2)
    ELSE IF line.lon = 0 /\ line.lat = 0 THEN NoneVal
    ELSE LET longitude == decode_mm_coordinate(line.lon)
             latitude  == decode_mm_coordinate(line.lat)
         IN  IF line.bad = "alt" \/ line.bad = "hd" THEN Raised   \* float(group 3), float(group 4)
             ELSE IF ~ (/\ -90000000 <= latitude /\ latitude <= 90000000
                        /\ -180000000 <= longitude /\ longitude <= 180000000)
             THEN NoneVal
             ELSE IF Abs(longitude) < 1000 /\ Abs(latitude) < 1000 THEN NoneVal
             ELSE [timestamp |-> line.ts, latitude |-> latitude, longitude |-> longitude]

\* raw MM values around every threshold of the decoder
RawValues == {-18000001, -9000001, -1000001, -1000000, -9, 0, 9, 10,
              900000, 900001, 1000000, 1000001, 9000000, 9000001, 18000000, 18000001}

DecodeLines ==
    {TrackLine(TRUE, form, bad, 0, lon, lat) :
        form \in {"no_ts", "no_mm", "mm"}, bad \in {"none", "ts", "lon", "lat", "alt", "hd"},
        lon \in RawValues, lat \in RawValues}

InitDecode ==
    /\ dline \in DecodeLines
    /\ dresult = NoneVal
    /\ dpc = "call"

\* gps_data = parse_gps_line(line)
DecodeCall ==
    /\ dpc = "call"
    /\ dresult' = parse_gps_line(dline)
    /\ dpc' = "done"
    /\ UNCHANGED dline
    /\ UNCHANGED <<wifiVars, trackVars, clusterVars, tripVars>>

--------------------------------------------------------------------------
(* parse_gps_tracks.py: main, the parsing loop *)

\* The lines of the model's log files: a line of another subsystem, two GPS
\* lines with a good fix, a GPS line with the (0,0) fix, and a GPS line whose
\* altitude text is not a number.
TrackLines ==
    { TrackLine(FALSE, "no_ts", "none", 0, 0, 0),
      TrackLine(TRUE, "mm", "none", 1000, 13572514, -3489980),
      TrackLine(TRUE, "mm", "none", 2000, 13572520, -3489900),
      TrackLine(TRUE, "mm", "none", 3000, 0, 0),
      TrackLine(TRUE, "mm", "alt", 4000, 13572514, -3489980) }

\* The model reads two log files (either may be empty) holding at most
\* MaxTrackLines lines together.
MaxTrackLines == 4

\* the pairs of files of at most max_lines lines together
TrackFileLists(max_lines) ==
    UNION { { <<[i \in 1..cut |-> ls[i]], [i \in 1..(Len(ls) - cut) |-> ls[cut + i]]>> :
                cut \in 0..Len(ls) } :
            ls \in UNION {[1..n -> TrackLines] : n \in 0..max_lines} }

InitTracks ==
    /\ log_files \in TrackFileLists(MaxTrackLines)
    /\ file_idx = 1 /\ line_idx = 0
    /\ all_gps_points = <<>>
    /\ total_lines_with_gps = 0 /\ lines_with_gps = 0 /\ points_found = 0
    /\ total_filtered = 0
    /\ tpc = "file"

\* the for-loop over log_files goes to the next file: its counters restart
NextFile ==
    /\ file_idx' = file_idx + 1
    /\ line_idx' = 0
    /\ IF file_idx < Len(log_files)
       THEN lines_with_gps' = 0 /\ points_found' = 0
       ELSE UNCHANGED <<lines_with_gps, points_found>>

\* one pass of `for line in f`
TrackLineStep ==
    /\ tpc = "file"
    /\ file_idx <= Len(log_files)
    /\ line_idx < Len(log_files[file_idx])
    /\ LET line == log_files[file_idx][line_idx + 1]
           gps == parse_gps_line(line)
       IN  IF ~ line.send
           THEN /\ line_idx' = line_idx + 1
                /\ UNCHANGED <<file_idx, all_gps_points, lines_with_gps, points_found>>
           ELSE IF gps = Raised
           \* lines_with_gps += 1, then the exception leaves the with and the
           \* for: except Exception, next file
           THEN /\ file_idx' = file_idx + 1
                /\ line_idx' = 0
                /\ IF file_idx < Len(log_files)
                   THEN lines_with_gps' = 0 /\ points_found' = 0
                   ELSE lines_with_gps' = lines_with_gps + 1 /\ UNCHANGED points_found
                /\ UNCHANGED all_gps_points
           ELSE IF gps = NoneVal
           THEN /\ lines_with_gps' = lines_with_gps + 1
                /\ line_idx' = line_idx + 1
                /\ UNCHANGED <<file_idx, all_gps_points, points_found>>
           ELSE /\ lines_with_gps' = lines_with_gps + 1
                /\ all_gps_points' = Append(all_gps_points, gps)
                /\ points_found' = points_found + 1
                /\ line_idx' = line_idx + 1
                /\ UNCHANGED file_idx
    /\ UNCHANGED <<log_files, total_lines_with_gps, total_filtered, tpc>>
    /\ UNCHANGED <<wifiVars, decodeVars, clusterVars, tripVars>>

\* the file is read to its end: total_lines_with_gps += lines_with_gps
TrackFileEnd ==
    /\ tpc = "file"
    /\ file_idx <= Len(log_files)
    /\ line_idx = Len(log_files[file_idx])
    /\ total_lines_with_gps' = total_lines_with_gps + lines_with_gps
    /\ NextFile
    /\ UNCHANGED <<log_files, all_gps_points, total_filtered, tpc>>
    /\ UNCHANGED <<wifiVars, decodeVars, clusterVars, tripVars>>

\* after the loop: total_filtered = total_lines_with_gps - len(all_gps_points)
TrackTotals ==
    /\ tpc = "file"
    /\ file_idx > Len(log_files)
    /\ total_filtered' = total_lines_with_gps - Len(all_gps_points)
    /\ tpc' = "parsed"
    /\ UNCHANGED <<log_files, file_idx, line_idx, all_gps_points, total_lines_with_gps,
                   lines_with_gps, points_found>>
    /\ UNCHANGED <<wifiVars, decodeVars, clusterVars, tripVars>>

--------------------------------------------------------------------------
(* parse_gps_tracks.py: trips *)

\* what a call gave when an index or a division failed
IndexError == [raised |-> "IndexError"]

ZeroDivisionError == [raised |-> "ZeroDivisionError"]

\* what a call gave when it returned v
Returned(v) == [returned |-> v]

\* a leg measured on another sphere (6378137 m)
trip_leg_mm_other_radius(lat1, lon1, lat2, lon2) ==
    LET dlat == lat2 - lat1
        dlon == lon2 - lon1
    IN  IF Abs(dlat) > NearSpan \/ Abs(dlon) > NearSpan THEN FarMM
        ELSE LET ew1 == (Abs(dlon) * CosE4(lat1)) \div 10000
                 ew2 == (Abs(dlon) * CosE4(lat2)) \div 10000
                 a   == dlat * dlat + ew1 * ew2
             IN  (ISqrt(a) * 111319) \div 1000

\* distance_m of one pass of the loop of calculate_trip_distance, in
\* millimetres: the haversine formula written out again, evaluated as
\* HaversineMM evaluates it.
trip_leg_mm(lat1, lon1, lat2, lon2) ==
    LET dlat == lat2 - lat1
        dlon == lon2 - lon1
    IN  IF Abs(dlat) > NearSpan \/ Abs(dlon) > NearSpan THEN FarMM
        ELSE LET ew1 == (Abs(dlon) * CosE4(lat1)) \div 10000
                 ew2 == (Abs(dlon) * CosE4(lat2)) \div 10000
                 a   == dlat * dlat + ew1 * ew2
             IN  (ISqrt(a) * 111195) \div 1000

\* for i in range(1, len(trip)): total_distance += distance_m
RECURSIVE sum_legs(_, _)
sum_legs(trip, i) ==
    IF i > Len(trip) THEN 0
    ELSE trip_leg_mm(trip[i - 1].latitude, trip[i - 1].longitude,
                     trip[i].latitude, trip[i].longitude) + sum_legs(trip, i + 1)

\* a distance measured from the first point of the trip to its last
calculate_trip_distance_endpoints(trip) ==
    IF Len(trip) < 2 THEN 0
    ELSE trip_leg_mm(trip[1].latitude, trip[1].longitude,
                     trip[Len(trip)].latitude, trip[Len(trip)].longitude)

calculate_trip_distance(trip) == IF Len(trip) < 2 THEN 0 ELSE sum_legs(trip, 2)

\* an insertion that puts a point in front of those of equal timestamp
RECURSIVE insert_before_equal_timestamp(_, _)
insert_before_equal_timestamp(sorted, p) ==
    IF sorted = <<>> THEN <<p>>
    ELSE IF Head(sorted).timestamp < p.timestamp
    THEN <<Head(sorted)>> \o insert_before_equal_timestamp(Tail(sorted), p)
    ELSE <<p>> \o sorted

\* gps_points.sort(key=lambda x: x['timestamp']): a stable sort
RECURSIVE insert_by_timestamp(_, _)
insert_by_timestamp(sorted, p) ==
    IF sorted = <<>> THEN <<p>>
    ELSE IF Head(sorted).timestamp <= p.timestamp
    THEN <<Head(sorted)>> \o insert_by_timestamp(Tail(sorted), p)
    ELSE <<p>> \o sorted

RECURSIVE sort_points_from(_, _, _)
sort_points_from(points, k, sorted) ==
    IF k > Len(points) THEN sorted
    ELSE sort_points_from(points, k + 1, insert_by_timestamp(sorted, points[k]))

\* a sort that keeps one of the records that are equal: sorted(set(...))
RECURSIVE insert_distinct(_, _)
insert_distinct(sorted, p) ==
    IF sorted = <<>> THEN <<p>>
    ELSE IF Head(sorted) = p THEN sorted
    ELSE IF Head(sorted).timestamp <= p.timestamp
    THEN <<Head(sorted)>> \o insert_distinct(Tail(sorted), p)
    ELSE <<p>> \o sorted

RECURSIVE sort_distinct_from(_, _, _)
sort_distinct_from(points, k, sorted) ==
    IF k > Len(points) THEN sorted
    ELSE sort_distinct_from(points, k + 1, insert_distinct(sorted, points[k]))

sort_by_timestamp_distinct(points) == sort_distinct_from(points, 1, <<>>)

sort_by_timestamp(points) == sort_points_from(points, 1, <<>>)

\* a gap test that also splits at the threshold
IsGap_at_threshold(time_diff_ms, time_gap_minutes) == time_diff_ms >= time_gap_minutes * 60000

\* time_diff > time_gap_minutes, time_diff being total_seconds() / 60
IsGap(time_diff_ms, time_gap_minutes) == time_diff_ms > time_gap_minutes * 60000

\* a loop that forgets the trip it is filling when the points run out
RECURSIVE group_from_without_last_trip(_, _, _, _, _)
group_from_without_last_trip(points, k, ts, current_trip, time_gap_minutes) ==
    IF k > Len(points) THEN ts
    ELSE LET point == points[k]
             time_diff == point.timestamp - current_trip[Len(current_trip)].timestamp
         IN  IF IsGap(time_diff, time_gap_minutes)
             THEN group_from_without_last_trip(points, k + 1, Append(ts, current_trip),
                                               <<point>>, time_gap_minutes)
             ELSE group_from_without_last_trip(points, k + 1, ts,
                                               Append(current_trip, point), time_gap_minutes)

\* for point in gps_points[1:], from the k-th point on, and what follows it
RECURSIVE group_from(_, _, _, _, _)
group_from(points, k, ts, current_trip, time_gap_minutes) ==
    IF k > Len(points)
    THEN IF current_trip # <<>> THEN Append(ts, current_trip) ELSE ts
    ELSE LET point == points[k]
             time_diff == point.timestamp - current_trip[Len(current_trip)].timestamp
         IN  IF IsGap(time_diff, time_gap_minutes)
             THEN group_from(points, k + 1, Append(ts, current_trip), <<point>>,
                             time_gap_minutes)
             ELSE group_from(points, k + 1, ts, Append(current_trip, point),
                             time_gap_minutes)

\* group_into_trips without its first test: gps_points[0] fails on an empty list
group_into_trips_no_guard(points, time_gap_minutes) ==
    LET sorted == sort_by_timestamp(points)
    IN  IF Len(sorted) = 0 THEN IndexError
        ELSE Returned(group_from(sorted, 2, <<>>, <<sorted[1]>>, time_gap_minutes))

group_into_trips(points, time_gap_minutes) ==
    IF points = <<>> THEN Returned(<<>>)
    ELSE LET sorted == sort_by_timestamp(points)
         IN  Returned(group_from(sorted, 2, <<>>, <<sorted[1]>>, time_gap_minutes))

\* a filter that keeps trips one point short of the minimum
filter_trips_one_short(ts, min_points) == SelectSeq(ts, LAMBDA trip : Len(trip) >= min_points - 1)

\* [trip for trip in trips if len(trip) >= min_points_per_trip]
filter_trips(ts, min_points) == SelectSeq(ts, LAMBDA trip : Len(trip) >= min_points)

\* Python's /: fails on a zero divisor
PyDiv(a, b) == IF b = 0 THEN ZeroDivisionError ELSE Returned(a \div b)

\* the speed without the test of the duration
avg_speed_kmh_unguarded(distance_mm, duration_ms) == PyDiv(distance_mm * 36, duration_ms)

\* (distance_km / (duration_min / 60)) if duration_min > 0 else 0, in tenths
\* of a km/h: 3.6 distance_mm / duration_ms km/h
avg_speed_kmh(distance_mm, duration_ms) ==
    IF duration_ms > 0 THEN PyDiv(distance_mm * 36, duration_ms) ELSE Returned(0)

\* what create_kml_file computes of a trip before it writes the file, or
\* the error that ends it
create_kml_file(trip) ==
    IF trip = <<>> THEN NoneVal
    ELSE LET start_time == trip[1].timestamp
             end_time == trip[Len(trip)].timestamp
             duration_ms == end_time - start_time
             distance_mm == calculate_trip_distance(trip)
             speed == avg_speed_kmh(distance_mm, duration_ms)
         IN  IF speed = ZeroDivisionError THEN ZeroDivisionError
             ELSE [start_time |-> start_time, end_time |-> end_time,
                   duration_ms |-> duration_ms, distance_mm |-> distance_mm,
                   avg_speed_kmh |-> speed.returned]

\* time_gap_minutes and min_points_per_trip of main
TimeGapMinutes == 2

MinPointsPerTrip == 3

(* the inputs of the model *)

\* Fixes at two places on the equator 0.01 degree of latitude apart, at times
\* whose gaps are below, at and above the threshold of 120 s; two of them
\* carry the same timestamp.
TripPoints ==
    { [timestamp |-> 0,      latitude |-> 0,     longitude |-> 10000000],
      [timestamp |-> 0,      latitude |-> 10000, longitude |-> 10000000],
      [timestamp |-> 30000,  latitude |-> 10000, longitude |-> 10000000],
      [timestamp |-> 150000, latitude |-> 0,     longitude |-> 10000000],
      [timestamp |-> 200000, latitude |-> 0,     longitude |-> 10000000],
      [timestamp |-> 230000, latitude |-> 10000, longitude |-> 10000000],
      [timestamp |-> 271000, latitude |-> 0,     longitude |-> 10000000] }

\* group_into_trips is entered with at most MaxTripPoints points
MaxTripPoints == 5

TripInputs(max_points) == UNION {[1..n -> TripPoints] : n \in 0..max_points}

\* two runs of three fixes, 170 s between the runs, in every order: the
\* input from which two trips survive the filter of main
TwoRunPoints == {p \in TripPoints : p.timestamp # 150000}

TwoRunInputs ==
    {ps \in [1..Cardinality(TwoRunPoints) -> TwoRunPoints] :
        \A a, b \in DOMAIN ps : a # b => ps[a] # ps[b]}

\* main at the call of group_into_trips
InitTrips ==
    /\ gps_points \in TripInputs(MaxTripPoints) \cup TwoRunInputs
    /\ trips = <<>> /\ valid_trips = <<>>
    /\ trip_idx = 0 /\ trip_stats = <<>>
    /\ gpc = "group"

\* trips = group_into_trips(all_gps_points, time_gap_minutes=time_gap_minutes)
TripGroup ==
    /\ gpc = "group"
    /\ LET result == group_into_trips(gps_points, TimeGapMinutes)
       IN  IF result = IndexError
           THEN trips' = <<>> /\ gpc' = "raised"
           ELSE trips' = result.returned /\ gpc' = "filter"
    /\ gps_points' = sort_by_timestamp(gps_points)
    /\ UNCHANGED <<valid_trips, trip_idx, trip_stats>>
    /\ UNCHANGED <<wifiVars, decodeVars, trackVars, clusterVars>>

\* valid_trips = [...]; main returns when there is none
TripFilter ==
    /\ gpc = "filter"
    /\ valid_trips' = filter_trips(trips, MinPointsPerTrip)
    /\ gpc' = IF valid_trips' = <<>> THEN "finished" ELSE "kml"
    /\ UNCHANGED <<gps_points, trips, trip_idx, trip_stats>>
    /\ UNCHANGED <<wifiVars, decodeVars, trackVars, clusterVars>>

\* one pass of `for trip in valid_trips`: create_kml_file(trip, filepath)
TripKml ==
    /\ gpc = "kml"
    /\ trip_idx < Len(valid_trips)
    /\ LET stats == create_kml_file(valid_trips[trip_idx + 1])
       IN  /\ trip_stats' = Append(trip_stats, stats)
           /\ IF stats = ZeroDivisionError
              THEN gpc' = "raised" /\ UNCHANGED trip_idx
              ELSE trip_idx' = trip_idx + 1 /\ UNCHANGED gpc
    /\ UNCHANGED <<gps_points, trips, valid_trips>>
    /\ UNCHANGED <<wifiVars, decodeVars, trackVars, clusterVars>>

\* after the last trip
TripsWritten ==
    /\ gpc = "kml"
    /\ trip_idx = Len(valid_trips)
    /\ gpc' = "finished"
    /\ UNCHANGED <<gps_points, trips, valid_trips, trip_idx, trip_stats>>
    /\ UNCHANGED <<wifiVars, decodeVars, trackVars, clusterVars>>

--------------------------------------------------------------------------
(* parse_unifiedsearch_log.py *)

\* A line of the unified search log, as parse_log_file sees it:
\*   "qnx"   starts with System:QNX
\*   "ts"    holds a YYYY-MM-DD HH:MM:SS text (whatever else it holds);
\*           `valid` is whether strptime accepts the text (2025-13-45 matches
\*           the pattern and is no date)
\*   "rgc"   holds rgc=&current_location=<lat>,<lon>&lang= and no timestamp
\*           text, the pair in micro-degrees here
\*   "ts_rgc" holds a timestamp text and an rgc pair
\*   "other" none of these
QnxLine == [kind |-> "qnx"]

TsLine(year, t, valid) == [kind |-> "ts", stamp |-> [year |-> year, t |-> t, valid |-> valid]]

RgcLine(lat, lon) == [kind |-> "rgc", lat |-> lat, lon |-> lon]

TsRgcLine(year, t, valid, lat, lon) ==
    [kind |-> "ts_rgc", stamp |-> [year |-> year, t |-> t, valid |-> valid],
     lat |-> lat, lon |-> lon]

UsOtherLine == [kind |-> "other"]

\* line.startswith('System:QNX')
StartsWithQnx(line) == line.kind = "qnx"

\* re.search(timestamp_pattern, line) finds a text
HasTimestamp(line) == line.kind \in {"ts", "ts_rgc"}

\* re.search(rgc_pattern, line) finds a pair
HasRgc(line) == line.kind \in {"rgc", "ts_rgc"}

\* sum(p[0] for p in points) and sum(p[1] for p in points)
RECURSIVE SumLat(_)
SumLat(points) == IF points = <<>> THEN 0 ELSE Head(points).lat + SumLat(Tail(points))

RECURSIVE SumLon(_)
SumLon(points) == IF points = <<>> THEN 0 ELSE Head(points).lon + SumLon(Tail(points))

\* a centroid taken when the cluster is seeded: the seed itself
calculate_centroid_of_seed(points) ==
    IF points = <<>> THEN [lat |-> NoneVal, lon |-> NoneVal]
    ELSE [lat |-> points[1].lat, lon |-> points[1].lon]

\* The mean of the latitudes and of the longitudes, to the micro-degree below.
\* Latitudes are summed relative to the first point so that the sum of
\* longitudes near 135 degrees stays inside 32 bits.
calculate_centroid(points) ==
    IF points = <<>> THEN [lat |-> NoneVal, lon |-> NoneVal]
    ELSE LET base == points[1]
             rel == [k \in 1..Len(points) |->
                        [lat |-> points[k].lat - base.lat, lon |-> points[k].lon - base.lon]]
         IN  [lat |-> base.lat + SumLat(rel) \div Len(points),
              lon |-> base.lon + SumLon(rel) \div Len(points)]

\* a scan that measures from the member that joined last
RECURSIVE scan_members_chain(_, _, _, _, _)
scan_members_chain(gps, i, j, used, radius_meters) ==
    IF j > Len(gps) THEN <<>>
    ELSE IF j \in used THEN scan_members_chain(gps, i, j + 1, used, radius_meters)
    ELSE IF HaversineMM(gps[i].lat, gps[i].lon, gps[j].lat, gps[j].lon) <= radius_meters * 1000
    THEN <<j>> \o scan_members_chain(gps, j, j + 1, used \cup {j}, radius_meters)
    ELSE scan_members_chain(gps, i, j + 1, used, radius_meters)

\* a scan that does not pass over claimed indices
RECURSIVE scan_members_no_claim_check(_, _, _, _, _)
scan_members_no_claim_check(gps, i, j, used, radius_meters) ==
    IF j > Len(gps) THEN <<>>
    ELSE IF HaversineMM(gps[i].lat, gps[i].lon, gps[j].lat, gps[j].lon) <= radius_meters * 1000
    THEN <<j>> \o scan_members_no_claim_check(gps, i, j + 1, used \cup {j}, radius_meters)
    ELSE scan_members_no_claim_check(gps, i, j + 1, used, radius_meters)

\* a scan that lets a point join only if it is within the radius of the seed
\* and of every member that joined before it
RECURSIVE scan_all_pairs_from(_, _, _, _, _, _)
scan_all_pairs_from(gps, i, j, used, radius_meters, members) ==
    IF j > Len(gps) THEN <<>>
    ELSE IF j \in used THEN scan_all_pairs_from(gps, i, j + 1, used, radius_meters, members)
    ELSE IF \A m \in members :
               HaversineMM(gps[m].lat, gps[m].lon, gps[j].lat, gps[j].lon) <= radius_meters * 1000
    THEN <<j>> \o scan_all_pairs_from(gps, i, j + 1, used \cup {j}, radius_meters,
                                      members \cup {j})
    ELSE scan_all_pairs_from(gps, i, j + 1, used, radius_meters, members)

scan_members_all_pairs(gps, i, j, used, radius_meters) ==
    scan_all_pairs_from(gps, i, j, used, radius_meters, {i})

\* a scan that stops at the first point that joins
RECURSIVE scan_members_first_only(_, _, _, _, _)
scan_members_first_only(gps, i, j, used, radius_meters) ==
    IF j > Len(gps) THEN <<>>
    ELSE IF j \in used THEN scan_members_first_only(gps, i, j + 1, used, radius_meters)
    ELSE IF HaversineMM(gps[i].lat, gps[i].lon, gps[j].lat, gps[j].lon) <= radius_meters * 1000
    THEN <<j>>
    ELSE scan_members_first_only(gps, i, j + 1, used, radius_meters)

\* The inner for-loop of cluster_locations from index j on: the indices that
\* join the cluster seeded at gps[i], in the order they join.  `used` holds
\* the indices claimed so far, the seed included.
RECURSIVE scan_members(_, _, _, _, _)
scan_members(gps, i, j, used, radius_meters) ==
    IF j > Len(gps) THEN <<>>
    ELSE IF j \in used THEN scan_members(gps, i, j + 1, used, radius_meters)
    ELSE IF HaversineMM(gps[i].lat, gps[i].lon, gps[j].lat, gps[j].lon) <= radius_meters * 1000
    THEN <<j>> \o scan_members(gps, i, j + 1, used \cup {j}, radius_meters)
    ELSE scan_members(gps, i, j + 1, used, radius_meters)

\* The body of the outer for-loop for an unclaimed index i: the cluster it
\* appends.  `indices` is bookkeeping of the model: the positions in gps_data
\* of the member points, in member order.
new_cluster(gps, i, used, radius_meters) ==
    LET indices == <<i>> \o scan_members(gps, i, 1, used \cup {i}, radius_meters)
        cluster_points == [k \in 1..Len(indices) |->
                              [lat |-> gps[indices[k]].lat, lon |-> gps[indices[k]].lon]]
        cluster_timestamps == [k \in 1..Len(indices) |-> gps[indices[k]].timestamp]
    IN  [centroid |-> calculate_centroid(cluster_points),
         points |-> cluster_points,
         timestamps |-> cluster_timestamps,
         count |-> Len(cluster_points),
         indices |-> indices]

\* clusters.sort(key=lambda x: x['count'], reverse=True): a stable sort, so
\* clusters of equal count keep their order.  Insertion from the left, each
\* cluster going behind every cluster whose count is not smaller.
RECURSIVE insert_by_count(_, _)
insert_by_count(sorted, c) ==
    IF sorted = <<>> THEN <<c>>
    ELSE IF Head(sorted).count >= c.count
    THEN <<Head(sorted)>> \o insert_by_count(Tail(sorted), c)
    ELSE <<c>> \o sorted

RECURSIVE sort_from(_, _, _)
sort_from(cs, k, sorted) ==
    IF k > Len(cs) THEN sorted ELSE sort_from(cs, k + 1, insert_by_count(sorted, cs[k]))

\* a sort by count that puts a cluster in front of those of equal count
RECURSIVE insert_before_equal(_, _)
insert_before_equal(sorted, c) ==
    IF sorted = <<>> THEN <<c>>
    ELSE IF Head(sorted).count > c.count
    THEN <<Head(sorted)>> \o insert_before_equal(Tail(sorted), c)
    ELSE <<c>> \o sorted

RECURSIVE sort_from_before_equal(_, _, _)
sort_from_before_equal(cs, k, sorted) ==
    IF k > Len(cs) THEN sorted
    ELSE sort_from_before_equal(cs, k + 1, insert_before_equal(sorted, cs[k]))

sort_by_count_desc_ties_reversed(cs) == sort_from_before_equal(cs, 1, <<>>)

sort_by_count_desc(cs) == sort_from(cs, 1, <<>>)

\* the outer for-loop of cluster_locations from index i on
RECURSIVE cluster_loop(_, _, _, _, _)
cluster_loop(gps, i, cs, used, radius_meters) ==
    IF i > Len(gps) THEN cs
    ELSE IF i \in used THEN cluster_loop(gps, i + 1, cs, used, radius_meters)
    ELSE LET c == new_cluster(gps, i, used, radius_meters)
         IN  cluster_loop(gps, i + 1, Append(cs, c),
                          used \cup {c.indices[k] : k \in 1..Len(c.indices)}, radius_meters)

\* cluster_locations as a function of its two arguments
cluster_locations(gps, radius_meters) ==
    sort_by_count_desc(cluster_loop(gps, 1, <<>>, {}, radius_meters))

\* radius_meters=100 of main's call (and the default)
RadiusMeters == 100

(* the inputs of the model *)

\* Points around a reference place: 80 m north of it, 80 m south of it, 82 m
\* east of the northern one (114 m from the reference), and 720 m away.
RefPoint == [lat |-> -34900000, lon |-> 135725140]

ClusterPoints ==
    { RefPoint,
      [lat |-> RefPoint.lat + 720, lon |-> RefPoint.lon],
      [lat |-> RefPoint.lat - 720, lon |-> RefPoint.lon],
      [lat |-> RefPoint.lat + 720, lon |-> RefPoint.lon + 900],
      [lat |-> RefPoint.lat + 5000, lon |-> RefPoint.lon + 5000] }

\* cluster_locations is entered with at most MaxPoints points, or with none
MaxPoints == 4

\* what parse_log_file can hand to cluster_locations: points of 2025, here
\* with the k-th point stamped k
ClusterInputs(max_points) ==
    { [k \in 1..n |-> [timestamp |-> [year |-> 2025, t |-> k, valid |-> TRUE],
                       lat |-> ps[k].lat, lon |-> ps[k].lon]] :
        n \in 0..max_points, ps \in [1..max_points -> ClusterPoints] }

\* the unified search log has at most MaxUsLines lines
MaxUsLines == 4

UsLineKinds ==
    { QnxLine, UsOtherLine,
      TsLine(2025, 1, TRUE), TsLine(2025, 2, TRUE), TsLine(2024, 3, TRUE),
      TsLine(2025, 4, FALSE),
      RgcLine(RefPoint.lat, RefPoint.lon), RgcLine(0, 0),
      TsRgcLine(2025, 5, TRUE, RefPoint.lat + 720, RefPoint.lon) }

UsLogs(max_lines) == UNION {[1..n -> UsLineKinds] : n \in 0..max_lines}

\* main() at the call of parse_log_file, or cluster_locations at its entry
InitCluster ==
    /\ us_idx = 0 /\ current_timestamp = NoneVal
    /\ clusters = <<>> /\ used_indices = {} /\ seed_idx = 0
    /\ \/ us_lines \in UsLogs(MaxUsLines) /\ gps_data = <<>> /\ cpc = "parse"
       \/ us_lines = <<>> /\ gps_data \in ClusterInputs(MaxPoints) /\ cpc = "loop"

\* a pass that goes on to search a timestamp line for coordinates
UsLineStep_searches_timestamp_lines ==
    /\ cpc = "parse"
    /\ us_idx < Len(us_lines)
    /\ LET line == us_lines[us_idx + 1]
           ts == IF HasTimestamp(line) THEN line.stamp ELSE current_timestamp
       IN  IF StartsWithQnx(line)
           THEN current_timestamp' = NoneVal /\ UNCHANGED gps_data
           ELSE /\ current_timestamp' = ts
                /\ IF HasRgc(line) /\ ts # NoneVal
                   THEN IF ts.valid /\ ts.year = 2025
                        THEN gps_data' = Append(gps_data, [timestamp |-> ts,
                                                           lat |-> line.lat, lon |-> line.lon])
                        ELSE UNCHANGED gps_data
                   ELSE UNCHANGED gps_data
    /\ us_idx' = us_idx + 1
    /\ UNCHANGED <<us_lines, clusters, used_indices, seed_idx, cpc>>
    /\ UNCHANGED <<wifiVars, decodeVars, trackVars, tripVars>>

\* one pass of `for line in f` of parse_log_file
UsLineStep ==
    /\ cpc = "parse"
    /\ us_idx < Len(us_lines)
    /\ LET line == us_lines[us_idx + 1]
       IN  IF StartsWithQnx(line)
           THEN current_timestamp' = NoneVal /\ UNCHANGED gps_data
           ELSE IF HasTimestamp(line)
           THEN current_timestamp' = line.stamp /\ UNCHANGED gps_data
           ELSE IF HasRgc(line) /\ current_timestamp # NoneVal
           THEN /\ UNCHANGED current_timestamp
                /\ IF current_timestamp.valid /\ current_timestamp.year = 2025
                   THEN gps_data' = Append(gps_data, [timestamp |-> current_timestamp,
                                                      lat |-> line.lat, lon |-> line.lon])
                   ELSE UNCHANGED gps_data      \* ValueError: continue; or another year
           ELSE UNCHANGED <<current_timestamp, gps_data>>
    /\ us_idx' = us_idx + 1
    /\ UNCHANGED <<us_lines, clusters, used_indices, seed_idx, cpc>>
    /\ UNCHANGED <<wifiVars, decodeVars, trackVars, tripVars>>

\* parse_log_file returned: main exits when there is no point, and calls
\* cluster_locations(gps_data, radius_meters=100) otherwise
UsParseEnd ==
    /\ cpc = "parse"
    /\ us_idx = Len(us_lines)
    /\ cpc' = IF gps_data = <<>> THEN "exit" ELSE "loop"
    /\ UNCHANGED <<us_lines, us_idx, current_timestamp, gps_data, clusters, used_indices, seed_idx>>
    /\ UNCHANGED <<wifiVars, decodeVars, trackVars, tripVars>>

\* a pass of the outer loop that takes the joining points in any order, as a
\* loop over an unordered collection would
ClusterStep_any_order ==
    /\ cpc = "loop"
    /\ seed_idx < Len(gps_data)
    /\ LET i == seed_idx + 1
       IN  IF i \in used_indices
           THEN UNCHANGED <<clusters, used_indices>>
           ELSE LET joined == scan_members(gps_data, i, 1, used_indices \cup {i}, RadiusMeters)
                    n == Len(joined)
                IN  \E f \in [1..n -> 1..n] :
                       /\ \A a, b \in 1..n : a # b => f[a] # f[b]
                       /\ LET indices == <<i>> \o [k \in 1..n |-> joined[f[k]]]
                              pts == [k \in 1..Len(indices) |->
                                         [lat |-> gps_data[indices[k]].lat,
                                          lon |-> gps_data[indices[k]].lon]]
                          IN  /\ clusters' = Append(clusters,
                                     [centroid |-> calculate_centroid(pts),
                                      points |-> pts,
                                      timestamps |-> [k \in 1..Len(indices) |->
                                                         gps_data[indices[k]].timestamp],
                                      count |-> Len(pts),
                                      indices |-> indices])
                              /\ used_indices' = used_indices \cup {i}
                                     \cup {joined[k] : k \in 1..n}
    /\ seed_idx' = seed_idx + 1
    /\ UNCHANGED <<us_lines, us_idx, current_timestamp, gps_data, cpc>>
    /\ UNCHANGED <<wifiVars, decodeVars, trackVars, tripVars>>

\* one pass of the outer for-loop of cluster_locations (seed_idx counts from 1)
ClusterStep ==
    /\ cpc = "loop"
    /\ seed_idx < Len(gps_data)
    /\ LET i == seed_idx + 1
       IN  IF i \in used_indices
           THEN UNCHANGED <<clusters, used_indices>>
           ELSE LET c == new_cluster(gps_data, i, used_indices, RadiusMeters)
                IN  /\ clusters' = Append(clusters, c)
                    /\ used_indices' = used_indices \cup {c.indices[k] : k \in 1..Len(c.indices)}
    /\ seed_idx' = seed_idx + 1
    /\ UNCHANGED <<us_lines, us_idx, current_timestamp, gps_data, cpc>>
    /\ UNCHANGED <<wifiVars, decodeVars, trackVars, tripVars>>

\* after the loop: sort by count, return
ClusterSortReturn ==
    /\ cpc = "loop"
    /\ seed_idx = Len(gps_data)
    /\ clusters' = sort_by_count_desc(clusters)
    /\ cpc' = "done"
    /\ UNCHANGED <<us_lines, us_idx, current_timestamp, gps_data, used_indices, seed_idx>>
    /\ UNCHANGED <<wifiVars, decodeVars, trackVars, tripVars>>

IdleDecode == dline = NoneVal /\ dresult = NoneVal /\ dpc = "idle"

IdleTracks ==
    /\ log_files = <<>> /\ file_idx = 0 /\ line_idx = 0 /\ all_gps_points = <<>>
    /\ total_lines_with_gps = 0 /\ lines_with_gps = 0 /\ points_found = 0
    /\ total_filtered = 0 /\ tpc = "idle"

IdleCluster ==
    /\ us_lines = <<>> /\ us_idx = 0 /\ current_timestamp = NoneVal
    /\ gps_data = <<>> /\ clusters = <<>> /\ used_indices = {}
    /\ seed_idx = 0 /\ cpc = "idle"

IdleTrips ==
    /\ gps_points = <<>> /\ trips = <<>> /\ valid_trips = <<>>
    /\ trip_idx = 0 /\ trip_stats = <<>> /\ gpc = "idle"

NextWifi ==
    \/ WifiReadError
    \/ WifiExtract
    \/ WifiAnalyzeEntry
    \/ WifiReturn

\* the start of SpecWifi: its script at its entry, the others idle
StartWifi == InitWifi /\ IdleDecode /\ IdleTracks /\ IdleCluster /\ IdleTrips

SpecWifi == StartWifi /\ [][NextWifi]_vars

NextDecode == DecodeCall

NextCluster ==
    \/ UsLineStep
    \/ UsParseEnd
    \/ ClusterStep
    \/ ClusterSortReturn

\* the start of SpecCluster: its script at its entry, the others idle
StartCluster == IdleWifi /\ IdleDecode /\ IdleTracks /\ InitCluster /\ IdleTrips

SpecCluster == StartCluster /\ [][NextCluster]_vars

NextTrips ==
    \/ TripGroup
    \/ TripFilter
    \/ TripKml
    \/ TripsWritten

\* the start of SpecTrips: main at the call of group_into_trips, the others idle
StartTrips == IdleWifi /\ IdleDecode /\ IdleTracks /\ IdleCluster /\ InitTrips

SpecTrips == StartTrips /\ [][NextTrips]_vars

NextTracks ==
    \/ TrackLineStep
    \/ TrackFileEnd
    \/ TrackTotals

\* the start of SpecTracks: its script at its entry, the others idle
StartTracks == IdleWifi /\ IdleDecode /\ InitTracks /\ IdleCluster /\ IdleTrips

SpecTracks == StartTracks /\ [][NextTracks]_vars

\* either of the two functions that are handed a list by main
NextLists == NextTrips \/ NextCluster

\* the start of SpecLists: one of the two scripts at the call, the others idle
StartLists == StartTrips \/ StartCluster

SpecLists == StartLists /\ [][NextLists]_vars

\* the start of SpecDecode: its script at its entry, the others idle
StartDecode == IdleWifi /\ InitDecode /\ IdleTracks /\ IdleCluster /\ IdleTrips

SpecDecode == StartDecode /\ [][NextDecode]_vars

--------------------------------------------------------------------------
(* Claims about match_wifi_to_GPS_location.py, under SpecWifi *)

\* the sighting the last pass of the loop of analyze_log_file handled
LastEntry == bssid_entries[entry_idx]

\* that pass called find_gps_in_window, so gps_found is its result
LastEntrySearched ==
    /\ wpc \in {"loop", "done"}
    /\ entry_idx >= 1
    /\ extract_ssid_and_signal(Lines(log_content), LastEntry.line_num) # NoneVal

\* the scanned GPS lines within the time window of a sighting
Qualifying(log, entry) ==
    {idx \in SearchLo(log, entry.line_num)..(SearchHi(log, entry.line_num) - 1) :
        /\ LineAt(log, idx).kind = "gps"
        /\ Abs(LineAt(log, idx).ts - entry.timestamp) <= WindowSeconds * 1000}

IsFixOfLine(gps, log, idx, entry) ==
    /\ gps.timestamp = LineAt(log, idx).ts
    /\ gps.mm_lon = LineAt(log, idx).mm_lon
    /\ gps.mm_lat = LineAt(log, idx).mm_lat
    /\ gps.time_diff = Abs(LineAt(log, idx).ts - entry.timestamp)

Handled == {bssid_entries[k] : k \in 1..entry_idx}

\* C2: every sighting contributes at most one record to matches; the record
\* carries the fix find_gps_in_window chose for that sighting; a sighting for
\* which the search gave None contributes nothing, and no sighting is handled
\* twice (records appear in the order of the sightings, each line once).
C2_AtMostOneRecord ==
    wpc \in {"loop", "done"} =>
        LET log == Lines(log_content)
        IN  /\ \A i \in 1..Len(matches) :
                 \E e \in Handled :
                    LET gps == find_gps_in_window(log, e.timestamp, e.line_num, WindowSeconds)
                    IN  /\ matches[i].line_num = e.line_num
                        /\ gps # NoneVal
                        /\ matches[i].gps_timestamp = gps.timestamp
                        /\ matches[i].mm_lon = gps.mm_lon
                        /\ matches[i].mm_lat = gps.mm_lat
                        /\ matches[i].gps_time_diff = gps.time_diff
            /\ \A i, j \in 1..Len(matches) :
                 i < j => matches[i].line_num < matches[j].line_num
            /\ Len(matches) <= entry_idx

\* C2 witness: a sighting with two GPS lines in range, both near the target,
\* gave exactly one record.
C2_Witness ==
    /\ wpc = "done"
    /\ Len(matches) = 1
    /\ LET log == Lines(log_content)
       IN  \E e \in Handled :
              /\ e.line_num = matches[1].line_num
              /\ Cardinality(Qualifying(log, e)) = 2
              /\ \A idx \in Qualifying(log, e) :
                    LET p == convert_mm_coordinates(LineAt(log, idx).mm_lon, LineAt(log, idx).mm_lat)
                    IN  HaversineMM(target.lat, target.lon, p.latitude, p.longitude)
                          <= max_distance * 1000

\* C3: every record of matches is within max_distance of the target, computed
\* from the target and the record's own fix, and within 2 s of its sighting.
C3_WithinDistanceAndTime ==
    \A i \in 1..Len(matches) :
        LET m == matches[i]
            p == convert_mm_coordinates(m.mm_lon, m.mm_lat)
        IN  /\ m.distance_mm = HaversineMM(target.lat, target.lon, p.latitude, p.longitude)
            /\ m.distance_mm <= max_distance * 1000
            /\ m.latitude = p.latitude /\ m.longitude = p.longitude
            /\ m.gps_time_diff <= 2000
            /\ m.gps_time_diff = Abs(m.gps_timestamp - m.timestamp)

\* C3 witness: the sighting's closest fix, 22 m from the target, gave a
\* record, while a GPS line 111 m from the target was in range as well.
C3_Witness ==
    /\ wpc = "done"
    /\ Len(matches) = 1
    /\ matches[1].distance_mm > 0
    /\ matches[1].gps_time_diff > 0
    /\ LET log == Lines(log_content)
       IN  \E e \in Handled :
              /\ e.line_num = matches[1].line_num
              /\ \E idx \in Qualifying(log, e) :
                    LET p == convert_mm_coordinates(LineAt(log, idx).mm_lon, LineAt(log, idx).mm_lat)
                    IN  HaversineMM(target.lat, target.lon, p.latitude, p.longitude)
                          > max_distance * 1000

--------------------------------------------------------------------------
(* Claims about parse_gps_line and decode_mm_coordinate, under SpecDecode *)

\* raw / 100000 and raw / 10000 degrees, in micro-degrees
Div100000(raw) == raw * 10

Div10000(raw) == raw * 100

IsFix(r) == r # NoneVal /\ r # Raised

\* the line has a timestamp and an MM Output field with a numeric raw pair
HasRawPair(line) ==
    /\ line.form = "mm"
    /\ line.bad \notin {"ts", "lon", "lat"}

\* C4: the decoder divides by 100000 when |raw| > 1000000 and by 10000
\* otherwise, the boundary |raw| = 1000000 included (divided by 10000), both
\* as a function and in the coordinates of every fix parse_gps_line returns.
C4_AdaptiveDivisor ==
    /\ \A raw \in RawValues :
          decode_mm_coordinate(raw)
            = IF raw > 1000000 \/ raw < -1000000 THEN Div100000(raw) ELSE Div10000(raw)
    /\ (dpc = "done" /\ IsFix(dresult)) =>
          /\ dresult.longitude = IF dline.lon > 1000000 \/ dline.lon < -1000000
                                 THEN Div100000(dline.lon) ELSE Div10000(dline.lon)
          /\ dresult.latitude = IF dline.lat > 1000000 \/ dline.lat < -1000000
                                THEN Div100000(dline.lat) ELSE Div10000(dline.lat)

\* C4 witness: a fix whose raw longitude is the boundary 1000000, decoded to
\* 100 degrees, and whose raw latitude 1000001 is decoded to 10.00001 degrees.
C4_Witness ==
    /\ dpc = "done"
    /\ IsFix(dresult)
    /\ dline.lon = 1000000 /\ dresult.longitude = 100000000
    /\ dline.lat = 1000001 /\ dresult.latitude = 10000010

InRange(latitude, longitude) ==
    /\ -90000000 <= latitude /\ latitude <= 90000000
    /\ -180000000 <= longitude /\ longitude <= 180000000

NearZero(latitude, longitude) == Abs(latitude) < 1000 /\ Abs(longitude) < 1000

\* C5: for a line with a timestamp and an MM Output field, parse_gps_line
\* returns None if the raw pair is (0,0), or the decoded point is out of
\* range, or it is near zero; every fix it returns is in range and not near
\* zero.
C5_RejectionRules ==
    (dpc = "done" /\ HasRawPair(dline)) =>
        LET latitude  == decode_mm_coordinate(dline.lat)
            longitude == decode_mm_coordinate(dline.lon)
        IN  /\ ( \/ (dline.lon = 0 /\ dline.lat = 0)
                 \/ ~ InRange(latitude, longitude)
                 \/ NearZero(latitude, longitude) ) => dresult = NoneVal
            /\ IsFix(dresult) =>
                 /\ InRange(dresult.latitude, dresult.longitude)
                 /\ ~ NearZero(dresult.latitude, dresult.longitude)

\* C7: parse_gps_line ends by returning a fix or None, whatever the line.
C7_NeverRaises ==
    dpc = "done" => dresult # Raised

--------------------------------------------------------------------------
(* Claims about the parsing loop of parse_gps_tracks.py, under SpecTracks *)

\* the fixes of the GPS lines of a file that parse_gps_line accepts, in order
RECURSIVE ValidPoints(_)
ValidPoints(lines) ==
    IF lines = <<>> THEN <<>>
    ELSE LET gps == parse_gps_line(Head(lines))
         IN  ( IF Head(lines).send /\ IsFix(gps) THEN <<gps>> ELSE <<>> )
             \o ValidPoints(Tail(lines))

RECURSIVE AllValidPoints(_)
AllValidPoints(files) ==
    IF files = <<>> THEN <<>> ELSE ValidPoints(Head(files)) \o AllValidPoints(Tail(files))

\* C8: a failure on one GPS line rejects that line only: once all files are
\* processed, all_gps_points holds the fix of every valid GPS line of every
\* file, those after a failing line included.
C8_FailureRejectsOneRecord ==
    tpc = "parsed" => all_gps_points = AllValidPoints(log_files)

--------------------------------------------------------------------------
(* Claims about parse_unifiedsearch_log.py, under SpecCluster *)

PointOf(g) == [lat |-> g.lat, lon |-> g.lon]

\* the positions of gps_data that the clusters hold, with repetitions
RECURSIVE AllIndices(_)
AllIndices(cs) == IF cs = <<>> THEN <<>> ELSE Head(cs).indices \o AllIndices(Tail(cs))

RECURSIVE SumCounts(_)
SumCounts(cs) == IF cs = <<>> THEN 0 ELSE Head(cs).count + SumCounts(Tail(cs))

\* every cluster's points are the points of gps_data at its indices
MembersAreInputs ==
    \A c \in 1..Len(clusters) :
        /\ Len(clusters[c].points) = Len(clusters[c].indices)
        /\ \A k \in 1..Len(clusters[c].indices) :
              /\ clusters[c].indices[k] \in 1..Len(gps_data)
              /\ clusters[c].points[k] = PointOf(gps_data[clusters[c].indices[k]])

\* C9: in every cluster, during the loop and in what is returned, every
\* member lies within radius_meters of the cluster's first member, the seed.
C9_WithinRadiusOfSeed ==
    /\ MembersAreInputs
    /\ \A c \in 1..Len(clusters) :
          LET seed == clusters[c].points[1]
          IN  \A k \in 1..Len(clusters[c].points) :
                 HaversineMM(seed.lat, seed.lon,
                             clusters[c].points[k].lat, clusters[c].points[k].lon)
                   <= RadiusMeters * 1000

\* C9 witness: a returned cluster of three whose second and third members are
\* farther than the radius from each other, and a point within the radius of
\* a member but not of the seed that was left to another cluster.
C9_Witness ==
    /\ cpc = "done"
    /\ \E c \in 1..Len(clusters) :
          /\ clusters[c].count = 3
          /\ HaversineMM(clusters[c].points[2].lat, clusters[c].points[2].lon,
                         clusters[c].points[3].lat, clusters[c].points[3].lon)
               > RadiusMeters * 1000
          /\ \E d \in 1..Len(clusters) :
                /\ d # c
                /\ HaversineMM(clusters[c].points[2].lat, clusters[c].points[2].lon,
                               clusters[d].points[1].lat, clusters[d].points[1].lon)
                     <= RadiusMeters * 1000

\* C10: what cluster_locations returns partitions its input: every position
\* of gps_data is in exactly one cluster, no cluster is empty, count is the
\* number of members, and the counts add up to the number of input points.
C10_Partition ==
    cpc = "done" =>
        LET idx == AllIndices(clusters)
        IN  /\ MembersAreInputs
            /\ Len(idx) = Len(gps_data)
            /\ SumCounts(clusters) = Len(gps_data)
            /\ \A i \in 1..Len(gps_data) :
                  Cardinality({k \in 1..Len(idx) : idx[k] = i}) = 1
            /\ \A c \in 1..Len(clusters) :
                  /\ clusters[c].count >= 1
                  /\ clusters[c].count = Len(clusters[c].points)
                  /\ clusters[c].count = Len(clusters[c].timestamps)

\* C10 witness: four points returned as two clusters or more, one of them
\* with several members, a later seed having passed over claimed points.
C10_Witness ==
    /\ cpc = "done"
    /\ Len(gps_data) = 4
    /\ Len(clusters) >= 2
    /\ clusters[1].count >= 2
    /\ \E c \in 1..Len(clusters) :
          \E i \in 1..Len(gps_data) :
             /\ i > clusters[c].indices[1]
             /\ \A k \in 1..Len(clusters[c].indices) : clusters[c].indices[k] # i
             /\ HaversineMM(clusters[c].points[1].lat, clusters[c].points[1].lon,
                            gps_data[i].lat, gps_data[i].lon) <= RadiusMeters * 1000

\* a valid GeoPoint: in range, not (0,0), not of near-zero magnitude
ValidGeoPoint(latitude, longitude) ==
    /\ InRange(latitude, longitude)
    /\ ~ (latitude = 0 /\ longitude = 0)
    /\ ~ NearZero(latitude, longitude)

\* C6: every coordinate that reaches an output is a valid GeoPoint: the
\* coordinates of the records of matches, and the members of the clusters
\* built from what parse_log_file returned.
C6_OutputsAreValidGeoPoints ==
    /\ \A i \in 1..Len(matches) : ValidGeoPoint(matches[i].latitude, matches[i].longitude)
    /\ \A c \in 1..Len(clusters) :
          \A k \in 1..Len(clusters[c].points) :
             ValidGeoPoint(clusters[c].points[k].lat, clusters[c].points[k].lon)

\* C11: clustering is deterministic: whatever run produced it, the list
\* returned for an input sequence is the value of cluster_locations for that
\* sequence and the radius, the same clusters in the same order with the same
\* members, timestamps, counts and centroids.
C11_Deterministic ==
    cpc = "done" => clusters = cluster_locations(gps_data, RadiusMeters)

\* C11 witness: a returned list of two clusters or more, one of them with
\* three members that joined in input order.
C11_Witness ==
    /\ cpc = "done"
    /\ Len(clusters) >= 2
    /\ \E c \in 1..Len(clusters) :
          /\ clusters[c].count = 3
          /\ clusters[c].indices[2] < clusters[c].indices[3]
          /\ clusters[c].timestamps[2] # clusters[c].timestamps[3]

\* C12: the returned clusters are in order of non-increasing count, and of
\* two clusters of equal count the one formed first (the one with the
\* earlier seed) comes first.
C12_SortedByCountStable ==
    cpc = "done" =>
        \A a, b \in 1..Len(clusters) :
            a < b =>
               /\ clusters[a].count >= clusters[b].count
               /\ clusters[a].count = clusters[b].count
                     => clusters[a].indices[1] < clusters[b].indices[1]

\* C12 witness: three clusters returned, the largest formed after the one
\* that now follows it, and the last two of equal count.
C12_Witness ==
    /\ cpc = "done"
    /\ Len(clusters) = 3
    /\ clusters[1].count > clusters[2].count
    /\ clusters[1].indices[1] > clusters[2].indices[1]
    /\ clusters[2].count = clusters[3].count

--------------------------------------------------------------------------
(* Claims about the trips of parse_gps_tracks.py, under SpecTrips *)

RECURSIVE Flatten(_)
Flatten(ts) == IF ts = <<>> THEN <<>> ELSE Head(ts) \o Flatten(Tail(ts))

Occurrences(seq, x) == Cardinality({k \in 1..Len(seq) : seq[k] = x})

TimesOf(seq) == [k \in 1..Len(seq) |-> seq[k].timestamp]

GapMs == TimeGapMinutes * 60000

C14_ShortTripsDiscarded ==
    gpc \in {"kml", "finished"} =>
        LET keep == {i \in 1..Len(trips) : Len(trips[i]) >= MinPointsPerTrip}
            idx  == SortedSeq(keep)
        IN  /\ Len(valid_trips) = Len(idx)
            /\ \A k \in 1..Len(idx) : valid_trips[k] = trips[idx[k]]
            /\ \A i \in (1..Len(trips)) \ keep :
                  \A k \in 1..Len(trips[i]) :
                     \A v \in 1..Len(valid_trips) :
                        Occurrences(valid_trips[v], trips[i][k]) = 0

\* C14 witness: a trip of two points discarded next to a retained trip.
C14_Witness ==
    /\ gpc = "finished"
    /\ Len(trips) = 2
    /\ Len(trips[1]) = 2
    /\ Len(valid_trips) = 1
    /\ valid_trips[1] = trips[2]
    /\ Len(trip_stats) = 1

\* C15: for every trip written, the duration is the last point's timestamp
\* minus the first point's, the average speed is distance over duration when
\* the duration is positive and 0 when it is 0, and no division fails.
C15_SpeedZeroOnZeroDuration ==
    /\ gpc # "raised"
    /\ \A k \in 1..Len(trip_stats) :
          LET st   == trip_stats[k]
              trip == valid_trips[k]
          IN  /\ st # ZeroDivisionError
              /\ st # NoneVal
              /\ st.duration_ms = trip[Len(trip)].timestamp - trip[1].timestamp
              /\ st.duration_ms >= 0
              /\ st.avg_speed_kmh = IF st.duration_ms > 0
                                    THEN (st.distance_mm * 36) \div st.duration_ms
                                    ELSE 0

\* C15 witness: a trip of positive length and zero duration, its speed 0.
C15_Witness ==
    /\ gpc = "finished"
    /\ Len(trip_stats) = 1
    /\ trip_stats[1].duration_ms = 0
    /\ trip_stats[1].distance_mm > 0
    /\ trip_stats[1].avg_speed_kmh = 0

\* C16: on an empty list group_into_trips returns an empty list of trips and
\* cluster_locations an empty list of clusters; neither raises.
C16_EmptyInput ==
    /\ cluster_locations(<<>>, RadiusMeters) = <<>>
    /\ group_into_trips(<<>>, TimeGapMinutes) = Returned(<<>>)
    /\ (gpc # "group" /\ gps_points = <<>>) => (gpc # "raised" /\ trips = <<>>)

\* C16 witness: main went on with the empty list of trips of an empty input.
C16_Witness ==
    /\ gpc = "finished"
    /\ gps_points = <<>>
    /\ trips = <<>>
    /\ valid_trips = <<>>

RECURSIVE HaversineLegs(_, _)
HaversineLegs(trip, i) ==
    IF i > Len(trip) THEN 0
    ELSE HaversineMM(trip[i - 1].latitude, trip[i - 1].longitude,
                     trip[i].latitude, trip[i].longitude) + HaversineLegs(trip, i + 1)

\* two points on the equator, on one meridian, 0.01 degree apart
EquatorPair(p, q) ==
    /\ p.longitude = q.longitude
    /\ {p.latitude, q.latitude} = {0, 10000}

\* C17: calculate_trip_distance on a trip of two points gives what
\* haversine_distance gives for the two points, about 1112 m (within 1 m)
\* when they lie 0.01 degree of latitude apart at the equator; the distance
\* of every trip written is the sum of the haversine distances of its legs.
C17_ReferenceDistance ==
    /\ \A t \in 1..Len(trips) :
          Len(trips[t]) = 2 =>
             LET p == trips[t][1]
                 q == trips[t][2]
                 d == calculate_trip_distance(trips[t])
             IN  /\ d = HaversineMM(p.latitude, p.longitude, q.latitude, q.longitude)
                 /\ EquatorPair(p, q) => (1111000 <= d /\ d <= 1113000)
    /\ \A k \in 1..Len(trip_stats) :
          trip_stats[k] # ZeroDivisionError =>
             trip_stats[k].distance_mm = HaversineLegs(valid_trips[k], 2)

\* C17 witness: a trip of the two equator points, 1111.95 m long.
C17_Witness ==
    /\ gpc = "finished"
    /\ \E t \in 1..Len(trips) :
          /\ Len(trips[t]) = 2
          /\ EquatorPair(trips[t][1], trips[t][2])
          /\ calculate_trip_distance(trips[t]) = 1111950

--------------------------------------------------------------------------
(* Claims about the line window of find_gps_in_window, under SpecWifi *)

TimeDiff(log, idx, entry) == Abs(LineAt(log, idx).ts - entry.timestamp)

\* the GPS lines of a set of line indices that are within window_seconds of
\* a sighting
InTime(log, indices, entry) ==
    {idx \in indices :
        /\ LineAt(log, idx).kind = "gps"
        /\ TimeDiff(log, idx, entry) <= WindowSeconds * 1000}

\* the closed interval [anchor - window_lines, anchor + window_lines],
\* clipped to the file
ClosedWindow(log, entry) ==
    Max2(0, entry.line_num - WindowLines)..Min2(Len(log) - 1, entry.line_num + WindowLines)

\* C18: the search considers every GPS line of the closed line interval
\* [anchor - 50, anchor + 50]: it returns None exactly when none of them is
\* within window_seconds, and otherwise one of them of smallest time
\* difference, the line exactly 50 after the anchor included.
C18_ClosedLineWindow ==
    LastEntrySearched =>
        LET log == Lines(log_content)
            q == InTime(log, ClosedWindow(log, LastEntry), LastEntry)
        IN  /\ (gps_found = NoneVal) <=> (q = {})
            /\ gps_found # NoneVal =>
                 \E idx \in q :
                    /\ IsFixOfLine(gps_found, log, idx, LastEntry)
                    /\ \A j \in q : gps_found.time_diff <= TimeDiff(log, j, LastEntry)

ScannedLines(log, entry) ==
    Max2(0, entry.line_num - WindowLines)
        ..(Min2(Len(log), entry.line_num + WindowLines) - 1)

\* C20: the line-bounded scan can miss the best match of the file: when
\* every GPS line of the file with the smallest time difference (within
\* window_seconds) lies outside the scanned lines, the search returns None or
\* a fix with a larger time difference.
C20_ScanIsApproximation ==
    LastEntrySearched =>
        LET log == Lines(log_content)
            infile == InTime(log, 0..(Len(log) - 1), LastEntry)
            scanned == ScannedLines(log, LastEntry)
        IN  infile # {} =>
              LET best == MinOf({TimeDiff(log, idx, LastEntry) : idx \in infile})
              IN  (\A idx \in infile :
                      TimeDiff(log, idx, LastEntry) = best => idx \notin scanned)
                  => (gps_found = NoneVal \/ gps_found.time_diff > best)

\* C20 witness: a GPS line within window_seconds of the sighting exists in
\* the file, outside the scanned lines, and the search returned None.
C20_Witness ==
    /\ LastEntrySearched
    /\ gps_found = NoneVal
    /\ LET log == Lines(log_content)
       IN  \E idx \in InTime(log, 0..(Len(log) - 1), LastEntry) :
              idx \notin ScannedLines(log, LastEntry)

--------------------------------------------------------------------------
(* Claims about the two decoders, under SpecDecode *)

\* C21: for every raw longitude/latitude pair, the decimal degrees that
\* convert_mm_coordinates gives to the correlator are the ones that
\* decode_mm_coordinate gives to the trip segmenter.
C21_SameDecoderRule ==
    (dpc = "done" /\ HasRawPair(dline)) =>
        convert_mm_coordinates(dline.lon, dline.lat)
          = [latitude  |-> decode_mm_coordinate(dline.lat),
             longitude |-> decode_mm_coordinate(dline.lon)]

--------------------------------------------------------------------------
(* Claims about the centroid and the membership test, under SpecCluster *)

\* c is the arithmetic mean sum / n, to the micro-degree below
IsMeanOf(c, sum, n) == c * n <= sum /\ sum < (c + 1) * n

CentroidIsMeanOfMembers(c) ==
    /\ c.count = Len(c.points)
    /\ c.count = Len(c.timestamps)
    /\ c.count = Len(c.indices)
    /\ \A k \in 1..c.count :
          /\ c.points[k] = PointOf(gps_data[c.indices[k]])
          /\ c.timestamps[k] = gps_data[c.indices[k]].timestamp
    /\ IsMeanOf(c.centroid.lat, SumLat(c.points), c.count)
    /\ IsMeanOf(c.centroid.lon, SumLon(c.points), c.count)

\* C22: the centroid of every cluster is the arithmetic mean of the
\* latitudes and of the longitudes of exactly its members, the count is the
\* number of its points and of its timestamps, and a cluster, once appended
\* with its centroid, is never changed by the rest of the scan.
C22_CentroidIsMean ==
    /\ [](\A k \in 1..Len(clusters) : CentroidIsMeanOfMembers(clusters[k]))
    /\ [][cpc' = "loop" => \A k \in 1..Len(clusters) : clusters'[k] = clusters[k]]_vars

\* a cluster of three members whose centroid is none of its members
C22_Witness ==
    /\ cpc = "done"
    /\ \E k \in 1..Len(clusters) :
          /\ clusters[k].count = 3
          /\ \A m \in 1..3 : clusters[k].centroid # clusters[k].points[m]

MembersOf(c) == {c.indices[k] : k \in 1..Len(c.indices)}

SeedOf(c) == c.indices[1]

DistMM(a, b) == HaversineMM(gps_data[a].lat, gps_data[a].lon, gps_data[b].lat, gps_data[b].lon)

\* the indices claimed by the clusters seeded before c
ClaimedBefore(c) ==
    UNION {MembersOf(clusters[k]) : k \in {d \in 1..Len(clusters) : SeedOf(clusters[d]) < SeedOf(c)}}

\* C23: membership is decided by the distance to the seed alone and is never
\* tested again: a point that is within the radius of a seed and was not
\* claimed by a cluster seeded earlier is a member of that seed's cluster,
\* however far it is from the other members; so there is an input whose
\* cluster holds two points more than the radius apart (C23_Witness).
C23_SeedDistanceAlone ==
    \A k \in 1..Len(clusters) :
        LET c == clusters[k]
        IN  \A j \in 1..Len(gps_data) :
                (DistMM(SeedOf(c), j) <= RadiusMeters * 1000 /\ j \notin ClaimedBefore(c))
                    => j \in MembersOf(c)

\* a returned cluster with two members each within the radius of the seed and
\* more than the radius from each other
C23_Witness ==
    /\ cpc = "done"
    /\ \E k \in 1..Len(clusters) :
          \E a, b \in MembersOf(clusters[k]) :
              /\ DistMM(SeedOf(clusters[k]), a) <= RadiusMeters * 1000
              /\ DistMM(SeedOf(clusters[k]), b) <= RadiusMeters * 1000
              /\ DistMM(a, b) > RadiusMeters * 1000

--------------------------------------------------------------------------
(* Claims about the order and the distance of trips, under SpecTrips *)

\* the points of seq that carry the timestamp t, in the order of seq
AtTime(seq, t) == SelectSeq(seq, LAMBDA p : p.timestamp = t)

\* C24: group_into_trips sorts the points by non-decreasing timestamp with
\* a stable sort: points of equal timestamp keep the order they had in the
\* input.
C24_StableSortByTime ==
    [][ (gpc = "group" /\ gpc' # "group") =>
          /\ Len(gps_points') = Len(gps_points)
          /\ \A k \in 1..(Len(gps_points') - 1) :
                gps_points'[k].timestamp <= gps_points'[k + 1].timestamp
          /\ \A p \in TripPoints :
                AtTime(gps_points', p.timestamp) = AtTime(gps_points, p.timestamp)
          /\ Flatten(trips') = gps_points'
      ]_vars

\* two fixes of the same time sorted with the northern one first, which no
\* order of the records themselves gives next to the southern one first
C24_Witness ==
    /\ gpc = "filter"
    /\ Len(gps_points) >= 3
    /\ gps_points[1].timestamp = gps_points[2].timestamp
    /\ gps_points[1].latitude > gps_points[2].latitude
    /\ gps_points[3].timestamp > gps_points[2].timestamp

\* C25: calculate_trip_distance is the sum, over the consecutive pairs of
\* points of the trip in order, of the great-circle distance of the pair; it
\* is 0 for a trip of fewer than two points and never negative.
C25_SumOfLegs ==
    \A t \in 1..Len(trips) :
        LET trip == trips[t]
            d == calculate_trip_distance(trip)
        IN  /\ d >= 0
            /\ Len(trip) < 2 => d = 0
            /\ d = HaversineLegs(trip, 2)
            /\ Len(trip) >= 2 =>
                  d = calculate_trip_distance(SubSeq(trip, 1, Len(trip) - 1))
                      + HaversineMM(trip[Len(trip) - 1].latitude, trip[Len(trip) - 1].longitude,
                                    trip[Len(trip)].latitude, trip[Len(trip)].longitude)

\* a trip there and back, twice 1111.95 m long though it ends where it
\* started, followed by a trip of a single point
C25_Witness ==
    /\ gpc = "finished"
    /\ Len(trips) = 2
    /\ Len(trips[1]) = 3
    /\ trips[1][1].latitude = trips[1][3].latitude
    /\ calculate_trip_distance(trips[1]) = 2223900
    /\ Len(trips[2]) = 1
    /\ calculate_trip_distance(trips[2]) = 0

--------------------------------------------------------------------------
(* Claims about the counters of main, under SpecTracks *)

\* the lines of a file that contain SendGPSCanData
RECURSIVE SendCount(_)
SendCount(lines) ==
    IF lines = <<>> THEN 0
    ELSE (IF Head(lines).send THEN 1 ELSE 0) + SendCount(Tail(lines))

RECURSIVE AllSendCount(_)
AllSendCount(files) ==
    IF files = <<>> THEN 0 ELSE SendCount(Head(files)) + AllSendCount(Tail(files))

\* C26: once all files are processed, total_lines_with_gps is the number of
\* SendGPSCanData lines seen, the accepted points plus the dropped lines,
\* and the filtered count, total_lines_with_gps - len(all_gps_points), is
\* the number of those lines that were rejected and is never negative, also
\* when the reading of a file ended with an error.
C26_FilteredCount ==
    tpc = "parsed" =>
        /\ total_filtered = total_lines_with_gps - Len(all_gps_points)
        /\ total_filtered >= 0
        /\ total_lines_with_gps = AllSendCount(log_files)

\* the gap between the last point of trip a and the first point of trip b
GapBetween(a, b) == b[1].timestamp - a[Len(a)].timestamp

--------------------------------------------------------------------------
(* Claims about the seeds and the parser, under SpecCluster *)

\* C28: for any two clusters, the seed and every other member of the
\* cluster formed later are more than radius_meters from the seed of the
\* cluster formed earlier.
C28_LaterClusterOutsideEarlierSeed ==
    \A a, b \in 1..Len(clusters) :
        SeedOf(clusters[a]) < SeedOf(clusters[b]) =>
            \A m \in MembersOf(clusters[b]) :
                DistMM(SeedOf(clusters[a]), m) > RadiusMeters * 1000

\* two returned clusters, a point of the later one within the radius of a
\* member of the earlier one that is not its seed
C28_Witness ==
    /\ cpc = "done"
    /\ \E a, b \in 1..Len(clusters) :
          /\ SeedOf(clusters[a]) < SeedOf(clusters[b])
          /\ \E n \in MembersOf(clusters[a]) \ {SeedOf(clusters[a])} :
                \E m \in MembersOf(clusters[b]) :
                    DistMM(n, m) <= RadiusMeters * 1000

\* the last line before line k that is an entry boundary or holds a
\* timestamp text; 0 if there is none
LastMark(k) ==
    LET marks == {b \in 1..(k - 1) : us_lines[b].kind \in {"qnx", "ts", "ts_rgc"}}
    IN  IF marks = {} THEN 0 ELSE CHOOSE b \in marks : \A c \in marks : c <= b

\* the timestamp in force at line k: the most recent timestamp text since
\* the last System:QNX line
StampAt(k) ==
    IF LastMark(k) = 0 \/ us_lines[LastMark(k)].kind = "qnx" THEN NoneVal
    ELSE us_lines[LastMark(k)].stamp

\* line k is a coordinate line that gives a point
Emits(k) ==
    /\ us_lines[k].kind = "rgc"
    /\ StampAt(k) # NoneVal
    /\ StampAt(k).valid
    /\ StampAt(k).year = 2025

RECURSIVE EmittedUpTo(_)
EmittedUpTo(n) ==
    IF n = 0 THEN <<>>
    ELSE EmittedUpTo(n - 1)
         \o (IF Emits(n)
             THEN <<[timestamp |-> StampAt(n), lat |-> us_lines[n].lat, lon |-> us_lines[n].lon]>>
             ELSE <<>>)

\* C29: parse_log_file is a line-by-line state machine: a System:QNX line
\* clears the current timestamp, a line with a timestamp sets it and is not
\* searched for coordinates, a coordinate line gives a point only if a
\* timestamp is set and its year is 2025; every point carries the most
\* recent timestamp seen since the last System:QNX line, and the points are
\* in file order.
C29_ParserStateMachine ==
    (cpc = "parse" \/ us_lines # <<>>) =>
        /\ current_timestamp = StampAt(us_idx + 1)
        /\ gps_data = EmittedUpTo(us_idx)

\* a parsed log of four lines that gave two points under different
\* timestamps, the second timestamp on a line that also holds a pair
C29_Witness ==
    /\ cpc = "loop"
    /\ Len(us_lines) = 4
    /\ us_lines[3].kind = "ts_rgc"
    /\ Len(gps_data) = 2
    /\ gps_data[1].timestamp.t = 1
    /\ gps_data[2].timestamp = us_lines[3].stamp
    /\ gps_data[2].lat # us_lines[3].lat

--------------------------------------------------------------------------
(* Claim about the lists handed to the two functions, under SpecLists *)

\* C30: group_into_trips changes nothing of the caller's list but its
\* order: after the call the list is sorted by time and holds the same
\* records, none added, removed or altered, and the trips hold those same
\* records; cluster_locations leaves the list it is given unchanged.
C30_ListsKeepTheirRecords ==
    [][ /\ (gpc = "group" /\ gpc' # "group") =>
             /\ Len(gps_points') = Len(gps_points)
             /\ \A k \in 1..Len(gps_points) :
                   Occurrences(gps_points', gps_points[k])
                       = Occurrences(gps_points, gps_points[k])
             /\ \A k \in 1..(Len(gps_points') - 1) :
                   gps_points'[k].timestamp <= gps_points'[k + 1].timestamp
             /\ Len(Flatten(trips')) = Len(gps_points)
             /\ \A k \in 1..Len(gps_points) :
                   Occurrences(Flatten(trips'), gps_points[k])
                       = Occurrences(gps_points, gps_points[k])
        /\ cpc = "loop" => gps_data' = gps_data
      ]_vars

\* a list that held one record twice is back from group_into_trips with
\* both copies, next to each other, and with a third record
C30_Witness ==
    /\ gpc = "filter"
    /\ Len(gps_points) = 3
    /\ \E k \in 1..2 : gps_points[k] = gps_points[k + 1]
    /\ \E k \in 1..3 : Occurrences(gps_points, gps_points[k]) = 1
    /\ Len(Flatten(trips)) = 3

==========================================================================
